---- MODULE Spec2Model ----
(***************************************************************************)
(* State-machine model of react-use-intercom's IntercomProvider            *)
(* (src/src/provider.tsx) and of the useInterval hook it polls with        *)
(* (src/unnamed/part_000).                                                 *)
(*                                                                         *)
(* The provider function body is the Render action, React's passive-effect *)
(* flush is CommitEffects, a setInterval firing is Tick, and every         *)
(* function the provider hands to consumers is one action.  The browser    *)
(* globals window.Intercom and window.intercomSettings are state.          *)
(***************************************************************************)
EXTENDS Integers, Sequences, FiniteSets, TLC

VARIABLES
    props,              \* the IntercomProviderProps of this mount (never mutated)
    apiMode,            \* what IntercomAPI does when the entry point is not callable:
                        \* "throws" | "fails" (the implementation's choice)
    isBooted,           \* isBooted.current
    Intercom,           \* window.Intercom: "absent" | "stub" | "vendor"
    intercomSettings,   \* window.intercomSettings: [present, kv]
    scriptPending,      \* the injected vendor script has not finished loading
    ping,               \* React state `ping`
    start,              \* start.current
    now,                \* Date.now()
    mounted,            \* the provider is mounted
    renders,            \* number of renders of this mount so far
    dirty,              \* a state update (setPing) has not been rendered yet
    pendingEffects,     \* a render has happened whose effects are not flushed
    renderedDelay,      \* the delay the latest render passed to useInterval
    savedCallback,      \* savedCallback.current: 0 = the initial no-op, n = render n's
    effectDelay,        \* the delay the interval effect last ran with (-1 = never ran)
    effectTimer,        \* the timer id held by the interval effect's cleanup (0 = none)
    timers,             \* the live setInterval timers: id -> next firing time
    nextTimerId,        \* the id setInterval returns next
    initCount,          \* history: runs of initializeAndAttachListeners
    bootsForwarded,     \* history: 'boot' commands forwarded since the last shutdown
    bootedSets,         \* history: assignments isBooted = true since the last shutdown
    session,            \* history: "fresh" | "booted" | "afterShutdown" | "afterHardShutdown"
    appearedAt,         \* history: when the external instance appeared (-1 = not yet)
    lastOp,             \* history: the operation that made the last step
    eff                 \* history: what the last step did (commands sent, logs, ...)

vars ==
    << props, apiMode, isBooted, Intercom, intercomSettings, scriptPending, ping,
       start, now, mounted, renders, dirty, pendingEffects, renderedDelay,
       savedCallback, effectDelay, effectTimer, timers, nextTimerId, initCount,
       bootsForwarded, bootedSets, session, appearedAt, lastOp, eff >>

-----------------------------------------------------------------------------
(* Bounds of the model *)

\* the interval passed to useInterval when polling is on (provider.tsx:138)
PingIntervalMs ==
    1000

\* time advances in steps of TimeStep milliseconds, MaxSteps times at most
TimeStep ==
    PingIntervalMs

MaxSteps ==
    1

\* renders of one mount
MaxRenders ==
    2

\* renders of a component that drives useInterval with delays of its choice
MaxHookRenders ==
    3

-----------------------------------------------------------------------------
(* Program constants *)

\* `null`, the disabled value of useInterval's delay (part_000:4,18)
NullDelay ==
    0

\* isSSR of ./utils: the model is of the browser, where window exists
isSSR ==
    FALSE

\* the appId prop
AppId ==
    "app1"

-----------------------------------------------------------------------------
(* Settings blobs: flat key -> value maps; Undef marks a key that is not set *)

Undef ==
    "undefined"

RawKeys ==
    {"app_id", "api_base", "name", "user_id", "custom"}

Empty ==
    [k \in RawKeys |-> Undef]

\* { ...a, ...b }: object spread, the later keys win
Spread(a, b) ==
    [k \in RawKeys |-> IF b[k] # Undef THEN b[k] ELSE a[k]]

\* window.intercomSettings when the property is not there
Absent ==
    [present |-> FALSE, kv |-> Empty]

Present(kv) ==
    [present |-> TRUE, kv |-> kv]

\* settings an external snippet may have put in window.intercomSettings
ExtSettings ==
    [Empty EXCEPT !["app_id"] = "extapp", !["name"] = "Ext", !["custom"] = "x"]

\* IntercomProps as a consumer passes them (camelCase); given = FALSE is "no argument"
PropKeys ==
    {"name", "userId"}

NoProps ==
    [given |-> FALSE, kv |-> [k \in PropKeys |-> Undef]]

PropsChoices ==
    { NoProps, [given |-> TRUE, kv |-> [name |-> "Jane", userId |-> "u1"]] }

\* mapIntercomPropsToRawIntercomProps of ./mappers: camelCase props to the vendor's
\* snake_case settings
mapIntercomPropsToRawIntercomProps(p) ==
    [Empty EXCEPT !["name"] = p.kv["name"], !["user_id"] = p.kv["userId"]]

-----------------------------------------------------------------------------
(* The mutable program state a handler works on, as one record, so that a  *)
(* handler that calls another (initializeAndAttachListeners -> boot ->     *)
(* IntercomAPI) is the composition of their effects.                       *)

\* what a step did to the interval hook: the delay the interval effect had run
\* with and the timers that were live before the step, the timer the step
\* cleared and the one it armed (0 = none), the callback a tick ran (0 = none)
NoHook ==
    [prevDelay |-> -1, prevTimers |-> {}, cleared |-> 0, armed |-> 0, ran |-> 0]

\* calls: every dispatch IntercomAPI was asked for; sent: those that reached the
\* vendor entry point
NoEff ==
    [calls |-> << >>, sent |-> << >>, threw |-> FALSE, notLoaded |-> FALSE, log |-> "none",
     onBoot |-> 0, onInitialize |-> 0, inits |-> 0, ret |-> Undef, hook |-> NoHook]

\* the two things an implementation of IntercomAPI may do on VendorNotLoaded
ApiChoices ==
    {"throws", "fails"}

Cur ==
    [isBooted |-> isBooted, Intercom |-> Intercom,
     intercomSettings |-> intercomSettings, scriptPending |-> scriptPending,
     ping |-> ping, dirty |-> dirty, initCount |-> initCount,
     bootsForwarded |-> bootsForwarded, bootedSets |-> bootedSets,
     session |-> session, eff |-> NoEff]

\* history counters saturate here
CountCap ==
    3

Inc(n) ==
    IF n < CountCap THEN n + 1 ELSE n

\* typeof window.Intercom === 'function' (and the truthiness test !window.Intercom)
Callable(h) ==
    h # "absent"

\* what the vendor entry point returns: the loaded widget answers getVisitorId, the
\* bootstrap's queueing entry point only records the call
VendorReturn(h, method) ==
    IF h = "vendor" /\ method = "getVisitorId" THEN "visitor-1" ELSE Undef

\* the statement after s ran: next is its outcome on s, skipped while an
\* exception is propagating
Then(s, next) ==
    IF s.eff.threw THEN s ELSE next

\* IntercomAPI of ./api: dispatch(command, ...args) of the command dispatcher.
\* Forwards to the global entry point when it is callable and returns what it
\* returns; otherwise VendorNotLoaded, raised as an exception or reported as a
\* failure result, whichever the implementation chose (apiMode).
IntercomAPI(s, method, args) ==
    LET call == [cmd |-> method, args |-> args, booted |-> s.isBooted]
    IN  IF Callable(s.Intercom)
        THEN [s EXCEPT
                !.eff.calls = Append(@, call),
                !.eff.sent = Append(@, call),
                !.eff.ret = VendorReturn(s.Intercom, method),
                !.bootsForwarded = IF method = "boot" THEN Inc(@) ELSE @]
        ELSE [s EXCEPT
                !.eff.calls = Append(@, call),
                !.eff.notLoaded = TRUE,
                !.eff.threw = (apiMode = "throws"),
                !.eff.ret = Undef]

\* initialize of ./initialize: injects the vendor bootstrap.  The bootstrap puts a
\* callable (queueing) entry point in place when there is none and starts the
\* asynchronous load of the vendor script.
initialize(s) ==
    [s EXCEPT !.Intercom = IF Callable(@) THEN @ ELSE "stub",
              !.scriptPending = TRUE]

\* mutant: the spread order swapped, the pre-existing blob wins over this call
getIntercomSettings_ExternalWins(s, metaData) ==
    LET withApp == [Empty EXCEPT !["app_id"] = AppId]
        withBase == IF props.apiBase # Undef
                    THEN [withApp EXCEPT !["api_base"] = props.apiBase]
                    ELSE withApp
        commonSettings == Spread(withBase, metaData)
    IN  IF props.externalIntercom
        THEN Spread(commonSettings, s.intercomSettings.kv)
        ELSE commonSettings

getIntercomSettings(s, metaData) ==
    LET withApp == [Empty EXCEPT !["app_id"] = AppId]
        withBase == IF props.apiBase # Undef
                    THEN [withApp EXCEPT !["api_base"] = props.apiBase]
                    ELSE withApp
        commonSettings == Spread(withBase, metaData)
    IN  IF props.externalIntercom
        THEN Spread(s.intercomSettings.kv, commonSettings)
        ELSE commonSettings

\* mutant: boot without the not-initialized guard
boot_NoInitializedGuard(s, p) ==
    IF s.isBooted
    THEN s
    ELSE LET intercomProps == IF p.given
                              THEN mapIntercomPropsToRawIntercomProps(p)
                              ELSE Empty
             settings == getIntercomSettings(s, intercomProps)
             s1 == [s EXCEPT !.intercomSettings = Present(settings)]
             s2 == IntercomAPI(s1, "boot", <<settings>>)
             Finish(x) == [x EXCEPT !.isBooted = TRUE,
                                    !.bootedSets = Inc(@),
                                    !.session = "booted",
                                    !.eff.onBoot = IF props.onBoot THEN @ + 1 ELSE @]
         IN  Then(s2, Finish(s2))

boot(s, p) ==
    IF ~Callable(s.Intercom) /\ ~props.shouldInitialize
    THEN [s EXCEPT !.eff.log = "notInitialized"]
    ELSE IF s.isBooted
    THEN s
    ELSE LET intercomProps == IF p.given
                              THEN mapIntercomPropsToRawIntercomProps(p)
                              ELSE Empty
             settings == getIntercomSettings(s, intercomProps)
             s1 == [s EXCEPT !.intercomSettings = Present(settings)]
             s2 == IntercomAPI(s1, "boot", <<settings>>)
             Finish(x) == [x EXCEPT !.isBooted = TRUE,
                                    !.bootedSets = Inc(@),
                                    !.session = "booted",
                                    !.eff.onBoot = IF props.onBoot THEN @ + 1 ELSE @]
         IN  Then(s2, Finish(s2))

\* mutant: boots at the end of initialization whatever autoBoot says
initializeAndAttachListeners_AlwaysBoots(s) ==
    LET s1 == [initialize(s) EXCEPT
                 !.initCount = Inc(@),
                 !.eff.inits = @ + 1,
                 !.eff.onInitialize = IF props.onInitialize THEN @ + 1 ELSE @]
    IN  Then(s1, boot(s1, NoProps))

\* mutant: auto-boot happens before the listeners are registered
initializeAndAttachListeners_BootsFirst(s) ==
    LET s1 == [initialize(s) EXCEPT
                 !.initCount = Inc(@),
                 !.eff.inits = @ + 1,
                 !.eff.onInitialize = IF props.onInitialize THEN @ + 1 ELSE @]
        Hide(x) == IF "onHide" \in props.listeners
                   THEN IntercomAPI(x, "onHide", <<"onHide">>) ELSE x
        Show(x) == IF "onShow" \in props.listeners
                   THEN IntercomAPI(x, "onShow", <<"onShow">>) ELSE x
        Unread(x) == IF "onUnreadCountChange" \in props.listeners
                     THEN IntercomAPI(x, "onUnreadCountChange",
                                      <<"onUnreadCountChange">>)
                     ELSE x
        Auto(x) == IF props.autoBoot THEN boot(x, NoProps) ELSE x
        s2 == Then(s1, Auto(s1))
        s3 == Then(s2, Hide(s2))
        s4 == Then(s3, Show(s3))
    IN  Then(s4, Unread(s4))

initializeAndAttachListeners(s) ==
    LET s1 == [initialize(s) EXCEPT
                 !.initCount = Inc(@),
                 !.eff.inits = @ + 1,
                 !.eff.onInitialize = IF props.onInitialize THEN @ + 1 ELSE @]
        Hide(x) == IF "onHide" \in props.listeners
                   THEN IntercomAPI(x, "onHide", <<"onHide">>) ELSE x
        Show(x) == IF "onShow" \in props.listeners
                   THEN IntercomAPI(x, "onShow", <<"onShow">>) ELSE x
        Unread(x) == IF "onUnreadCountChange" \in props.listeners
                     THEN IntercomAPI(x, "onUnreadCountChange",
                                      <<"onUnreadCountChange">>)
                     ELSE x
        Auto(x) == IF props.autoBoot THEN boot(x, NoProps) ELSE x
        s2 == Then(s1, Hide(s1))
        s3 == Then(s2, Show(s2))
        s4 == Then(s3, Unread(s3))
    IN  Then(s4, Auto(s4))

setPing(s, v) ==
    [s EXCEPT !.ping = v, !.dirty = @ \/ (s.ping # v)]

\* the callback the provider passes to useInterval (it reads Date.now() as `now`)
pingCallback(s) ==
    LET InitThenStop(x) == LET y == initializeAndAttachListeners(x)
                           IN  Then(y, setPing(y, FALSE))
    IN  IF ~isSSR /\ props.shouldInitialize /\ props.externalIntercom
        THEN IF Callable(s.Intercom)
             THEN InitThenStop(s)
             ELSE IF props.externalIntercomFallback
                     /\ now - start > props.externalIntercomFallbackDelay
                  THEN InitThenStop(s)
                  ELSE s
        ELSE s

\* the delay the provider passes to useInterval
intervalDelay(p) ==
    LET shouldPing == p /\ props.externalIntercom
    IN  IF shouldPing THEN NullDelay ELSE PingIntervalMs

\* the initialization the provider's body performs while rendering
renderInit(s) ==
    IF ~isSSR /\ props.shouldInitialize /\ ~props.externalIntercom
       /\ ~Callable(s.Intercom)
    THEN initializeAndAttachListeners(s)
    ELSE s

\* a callback whose body is a block returns undefined whatever IntercomAPI returned
Void(s) ==
    [s EXCEPT !.eff.ret = Undef]

\* callback is the outcome of the callback run on s
ensureIntercom(s, functionName, callback) ==
    IF ~Callable(s.Intercom) /\ ~props.shouldInitialize
    THEN [s EXCEPT !.eff.log = "notInitialized", !.eff.ret = Undef]
    ELSE IF ~s.isBooted
    THEN [s EXCEPT !.eff.log = "notBooted:" \o functionName, !.eff.ret = Undef]
    ELSE callback

\* mutant: the soft shutdown also deletes the handle and the settings blob
shutdown_DeletesGlobals(s) ==
    IF ~s.isBooted
    THEN s
    ELSE LET Finish(x) == [x EXCEPT !.Intercom = "absent",
                                    !.intercomSettings = Absent,
                                    !.isBooted = FALSE, !.bootsForwarded = 0,
                                    !.bootedSets = 0,
                                    !.session = "afterShutdown"]
         IN  Then(IntercomAPI(s, "shutdown", << >>),
                  Finish(IntercomAPI(s, "shutdown", << >>)))

shutdown(s) ==
    IF ~s.isBooted
    THEN s
    ELSE LET Finish(x) == [x EXCEPT !.isBooted = FALSE, !.bootsForwarded = 0,
                                    !.bootedSets = 0,
                                    !.session = "afterShutdown"]
         IN  Then(IntercomAPI(s, "shutdown", << >>),
                  Finish(IntercomAPI(s, "shutdown", << >>)))

\* mutant: the settings blob is not deleted
hardShutdown_KeepsSettings(s) ==
    IF ~s.isBooted
    THEN s
    ELSE LET Finish(x) == [x EXCEPT !.Intercom = "absent",
                                    !.isBooted = FALSE, !.bootsForwarded = 0,
                                    !.bootedSets = 0,
                                    !.session = "afterHardShutdown"]
         IN  Then(IntercomAPI(s, "shutdown", << >>),
                  Finish(IntercomAPI(s, "shutdown", << >>)))

hardShutdown(s) ==
    IF ~s.isBooted
    THEN s
    ELSE LET Finish(x) == [x EXCEPT !.Intercom = "absent",
                                    !.intercomSettings = Absent,
                                    !.isBooted = FALSE, !.bootsForwarded = 0,
                                    !.bootedSets = 0,
                                    !.session = "afterHardShutdown"]
         IN  Then(IntercomAPI(s, "shutdown", << >>),
                  Finish(IntercomAPI(s, "shutdown", << >>)))

refresh(s) ==
    Void(ensureIntercom(s, "update",
            Void(IntercomAPI(s, "update", <<[last_requested_at |-> now]>>))))

\* mutant: update without the readiness guard
update_Unguarded(s, p) ==
    LET rawProps == mapIntercomPropsToRawIntercomProps(p)
        s1 == [s EXCEPT !.intercomSettings =
                   Present(Spread(s.intercomSettings.kv, rawProps))]
    IN  IF p.given
        THEN Void(IntercomAPI(s1, "update", <<rawProps>>))
        ELSE Void(IntercomAPI(s, "update", <<[last_requested_at |-> now]>>))

update(s, p) ==
    Void(ensureIntercom(s, "update",
            IF ~p.given
            THEN refresh(s)
            ELSE LET rawProps == mapIntercomPropsToRawIntercomProps(p)
                     s1 == [s EXCEPT !.intercomSettings =
                                Present(Spread(s.intercomSettings.kv, rawProps))]
                 IN  Void(IntercomAPI(s1, "update", <<rawProps>>))))

\* mutant: hide without the readiness guard
hide_Unguarded(s) ==
    Void(IntercomAPI(s, "hide", << >>))

hide(s) ==
    Void(ensureIntercom(s, "hide", Void(IntercomAPI(s, "hide", << >>))))

show(s) ==
    Void(ensureIntercom(s, "show", IntercomAPI(s, "show", << >>)))

showMessages(s) ==
    Void(ensureIntercom(s, "showMessages",
            Void(IntercomAPI(s, "showMessages", << >>))))

showNewMessages(s, message) ==
    Void(ensureIntercom(s, "showNewMessage",
            IF message = Undef
            THEN Void(IntercomAPI(s, "showNewMessage", << >>))
            ELSE Void(IntercomAPI(s, "showNewMessage", <<message>>))))

getVisitorId(s) ==
    ensureIntercom(s, "getVisitorId", IntercomAPI(s, "getVisitorId", << >>))

startTour(s, tourId) ==
    Void(ensureIntercom(s, "startTour",
            Void(IntercomAPI(s, "startTour", <<tourId>>))))

trackEvent(s, event, metaData) ==
    Void(ensureIntercom(s, "trackEvent",
            IF metaData # Undef
            THEN Void(IntercomAPI(s, "trackEvent", <<event, metaData>>))
            ELSE Void(IntercomAPI(s, "trackEvent", <<event>>))))

-----------------------------------------------------------------------------
(* useInterval (src/unnamed/part_000): a live timer is [id, delay, due, armed];
   armed records the callback that was current when the timer was armed *)

\* mutant: clearInterval releases nothing
clearInterval_Leaks(ts, id) ==
    ts

clearInterval(ts, id) ==
    {t \in ts : t.id # id}

setInterval(ts, id, delay, cb) ==
    ts \cup {[id |-> id, delay |-> delay, due |-> now + delay, armed |-> cb]}

\* mutant: tick runs the callback that was current when its timer was armed
tickCallback_Captured(t) ==
    t.armed

\* tick() reads savedCallback.current when it fires
tickCallback(t) ==
    savedCallback

\* mutant: the interval effect re-runs on every update
delayChanged_Always ==
    TRUE

\* the dependency array [delay] of the interval effect changed (or it never ran)
delayChanged ==
    effectDelay # renderedDelay

-----------------------------------------------------------------------------
(* Initial states: before the first render of the provider *)

\* externalIntercomFallbackDelay: shorter than the polling interval, so that the
\* first tick is already past it
FallbackDelays ==
    {TimeStep \div 2}

ListenerChoices ==
    { {}, {"onHide", "onShow", "onUnreadCountChange"} }

\* externalIntercomFallback keeps its default (true).  The optional props that only
\* add to what is sent (apiBase, the listeners) are either all given or all left out.
PropsSpace ==
    { c \in [autoBoot : BOOLEAN, shouldInitialize : BOOLEAN,
              externalIntercom : BOOLEAN, externalIntercomFallback : {TRUE},
              externalIntercomFallbackDelay : FallbackDelays,
              apiBase : {Undef, "base1"}, listeners : ListenerChoices,
              onBoot : {TRUE}, onInitialize : {TRUE}] :
        (c.apiBase = Undef) <=> (c.listeners = {}) }

\* the globals at mount: a page without the widget, or one whose own snippet has
\* loaded it and set its settings
InitialGlobals ==
    { << "absent", Absent >>, << "vendor", Present(ExtSettings) >> }

Snapshot(s) ==
    [isBooted |-> s.isBooted, Intercom |-> s.Intercom,
     intercomSettings |-> s.intercomSettings,
     bootsForwarded |-> s.bootsForwarded, session |-> s.session]

Op(name, p) ==
    [op |-> name, arg |-> p, pre |-> Snapshot(Cur)]

Init ==
    /\ props \in PropsSpace
    /\ apiMode \in ApiChoices
    /\ isBooted = FALSE
    /\ \E g \in InitialGlobals :
         /\ Intercom = g[1]
         /\ intercomSettings = g[2]
    /\ scriptPending = FALSE
    /\ ping = TRUE
    /\ start = 0
    /\ now = 0
    /\ mounted = FALSE
    /\ renders = 0
    /\ dirty = FALSE
    /\ pendingEffects = FALSE
    /\ renderedDelay = NullDelay
    /\ savedCallback = 0
    /\ effectDelay = -1
    /\ effectTimer = 0
    /\ timers = {}
    /\ nextTimerId = 1
    /\ initCount = 0
    /\ bootsForwarded = 0
    /\ bootedSets = 0
    /\ session = "fresh"
    /\ appearedAt = IF Callable(Intercom) THEN 0 ELSE -1
    /\ lastOp = [op |-> "none", arg |-> NoProps,
                 pre |-> [isBooted |-> FALSE, Intercom |-> Intercom,
                          intercomSettings |-> intercomSettings,
                          bootsForwarded |-> 0, session |-> "fresh"]]
    /\ eff = NoEff

\* the handler's result s becomes the next state; name is the operation that ran
Commit(s, name, p) ==
    /\ isBooted' = s.isBooted
    /\ Intercom' = s.Intercom
    /\ intercomSettings' = s.intercomSettings
    /\ scriptPending' = s.scriptPending
    /\ ping' = s.ping
    /\ dirty' = s.dirty
    /\ initCount' = s.initCount
    /\ bootsForwarded' = s.bootsForwarded
    /\ bootedSets' = s.bootedSets
    /\ session' = s.session
    /\ eff' = s.eff
    /\ lastOp' = Op(name, p)

Hooks ==
    << renders, pendingEffects, renderedDelay, savedCallback, effectDelay,
       effectTimer, timers, nextTimerId >>

-----------------------------------------------------------------------------
(* Actions *)

\* one execution of the provider's function body (provider.tsx:17-303)
Render ==
    /\ renders = 0 \/ mounted
    /\ renders < MaxRenders
    /\ ~pendingEffects
    /\ LET s == renderInit(Cur)
       IN  Commit([s EXCEPT !.dirty = FALSE], "render", NoProps)
    /\ start' = IF renders = 0 THEN now ELSE start
    /\ mounted' = TRUE
    /\ renders' = renders + 1
    /\ renderedDelay' = intervalDelay(ping)
    /\ pendingEffects' = TRUE
    /\ UNCHANGED << props, apiMode, now, savedCallback, effectDelay, effectTimer,
                    timers, nextTimerId, appearedAt >>

\* React flushes the effects of the latest render (part_000:8-10 and 13-24)
CommitEffects ==
    /\ mounted
    /\ pendingEffects
    /\ savedCallback' = renders
    /\ IF delayChanged
       THEN LET cleaned == IF effectTimer # 0
                           THEN clearInterval(timers, effectTimer)
                           ELSE timers
            IN  /\ effectDelay' = renderedDelay
                /\ IF renderedDelay # NullDelay
                   THEN /\ timers' = setInterval(cleaned, nextTimerId,
                                                 renderedDelay, renders)
                        /\ effectTimer' = nextTimerId
                        /\ nextTimerId' = nextTimerId + 1
                   ELSE /\ timers' = cleaned
                        /\ effectTimer' = 0
                        /\ UNCHANGED nextTimerId
       ELSE UNCHANGED << effectDelay, timers, effectTimer, nextTimerId >>
    /\ pendingEffects' = FALSE
    /\ lastOp' = Op("commitEffects", NoProps)
    /\ eff' = [NoEff EXCEPT !.hook =
                  [prevDelay |-> effectDelay, prevTimers |-> timers,
                   cleared |-> IF delayChanged THEN effectTimer ELSE 0,
                   armed |-> IF delayChanged /\ renderedDelay # NullDelay
                             THEN nextTimerId ELSE 0,
                   ran |-> 0]]
    /\ UNCHANGED << props, apiMode, isBooted, Intercom, intercomSettings,
                    scriptPending, ping, start, now, mounted, renders, dirty,
                    renderedDelay, initCount, bootsForwarded, bootedSets, session,
                    appearedAt >>

\* a live timer fires: tick() runs savedCallback.current (part_000:14-16)
Tick ==
    /\ \E t \in timers :
        /\ now >= t.due
        /\ timers' = (timers \ {t}) \cup {[t EXCEPT !.due = t.due + t.delay]}
        /\ LET cb == tickCallback(t)
               s == IF cb = 0 THEN Cur ELSE pingCallback(Cur)
           IN  Commit([s EXCEPT !.eff.hook.ran = cb], "tick", NoProps)
    /\ UNCHANGED << props, apiMode, start, now, mounted, renders, pendingEffects,
                    renderedDelay, savedCallback, effectDelay, effectTimer,
                    nextTimerId, appearedAt >>

\* the provider unmounts: React runs the interval effect's cleanup (part_000:20)
Unmount ==
    /\ mounted
    /\ mounted' = FALSE
    /\ timers' = IF effectTimer # 0 THEN clearInterval(timers, effectTimer) ELSE timers
    /\ effectTimer' = 0
    /\ pendingEffects' = FALSE
    /\ lastOp' = Op("unmount", NoProps)
    /\ eff' = [NoEff EXCEPT !.hook.prevDelay = effectDelay,
                            !.hook.prevTimers = timers,
                            !.hook.cleared = effectTimer]
    /\ UNCHANGED << props, apiMode, isBooted, Intercom, intercomSettings,
                    scriptPending, ping, start, now, renders, dirty, renderedDelay,
                    savedCallback, effectDelay, nextTimerId, initCount,
                    bootsForwarded, bootedSets, session, appearedAt >>

\* the clock advances; a due timer fires first, a scheduled render happens first
AdvanceTime ==
    /\ now + TimeStep <= MaxSteps * TimeStep
    /\ ~pendingEffects
    /\ ~dirty
    /\ \A t \in timers : now < t.due
    /\ now' = now + TimeStep
    /\ lastOp' = Op("advanceTime", NoProps)
    /\ eff' = NoEff
    /\ UNCHANGED << props, apiMode, isBooted, Intercom, intercomSettings,
                    scriptPending, ping, start, mounted, dirty, initCount,
                    bootsForwarded, bootedSets, session, appearedAt, Hooks >>

\* the vendor script injected by initialize finishes loading and installs the widget
VendorScriptLoads ==
    /\ mounted
    /\ scriptPending
    /\ scriptPending' = FALSE
    /\ Intercom' = "vendor"
    /\ lastOp' = Op("vendorScriptLoads", NoProps)
    /\ eff' = NoEff
    /\ UNCHANGED << props, apiMode, isBooted, intercomSettings, ping, start, now,
                    mounted, dirty, initCount, bootsForwarded, bootedSets, session,
                    appearedAt, Hooks >>

\* the externally loaded widget appears (externalIntercom): it adds the handle and
\* may bring its own settings blob
ExternalInstanceLoads ==
    /\ mounted
    /\ props.externalIntercom
    /\ ~Callable(Intercom)
    /\ Intercom' = "vendor"
    /\ intercomSettings' \in
         {intercomSettings} \cup
         (IF intercomSettings.present THEN {} ELSE {Present(ExtSettings)})
    /\ lastOp' = Op("externalInstanceLoads", NoProps)
    /\ eff' = NoEff
    /\ appearedAt' = IF appearedAt = -1 THEN now ELSE appearedAt
    /\ UNCHANGED << props, apiMode, isBooted, scriptPending, ping, start, now,
                    mounted, dirty, initCount, bootsForwarded, bootedSets, session,
                    Hooks >>

\* a consumer calls one of the context's functions (from an event handler or an
\* effect of its own: React has flushed the provider's effects by then)
Call(s, name, p) ==
    /\ mounted
    /\ ~pendingEffects
    /\ Commit(s, name, p)
    /\ UNCHANGED << props, apiMode, start, now, mounted, appearedAt, Hooks >>

Boot ==
    \E p \in PropsChoices : Call(boot(Cur, p), "boot", p)

Shutdown ==
    Call(shutdown(Cur), "shutdown", NoProps)

HardShutdown ==
    Call(hardShutdown(Cur), "hardShutdown", NoProps)

Update ==
    \E p \in PropsChoices : Call(update(Cur, p), "update", p)

Hide ==
    Call(hide(Cur), "hide", NoProps)

Show ==
    Call(show(Cur), "show", NoProps)

ShowMessages ==
    Call(showMessages(Cur), "showMessages", NoProps)

ShowNewMessages ==
    \E m \in {Undef, "hello"} :
        Call(showNewMessages(Cur, m), "showNewMessages", NoProps)

GetVisitorId ==
    Call(getVisitorId(Cur), "getVisitorId", NoProps)

StartTour ==
    \E id \in {7} : Call(startTour(Cur, id), "startTour", NoProps)

TrackEvent ==
    \E m \in {Undef, "meta"} :
        Call(trackEvent(Cur, "evt", m), "trackEvent", NoProps)

Next ==
    \/ Render
    \/ CommitEffects
    \/ Tick
    \/ Unmount
    \/ AdvanceTime
    \/ VendorScriptLoads
    \/ ExternalInstanceLoads
    \/ Boot
    \/ Shutdown
    \/ HardShutdown
    \/ Update
    \/ Hide
    \/ Show
    \/ ShowMessages
    \/ ShowNewMessages
    \/ GetVisitorId
    \/ StartTour
    \/ TrackEvent

Spec ==
    Init /\ [][Next]_vars

-----------------------------------------------------------------------------
(* useInterval on its own: any component may call the hook, passing a new
   callback on every render and whatever delay it likes.  The provider's state
   stays as it is at mount; the callback has no effect of its own. *)

\* the delays the owner passes: null, the provider's interval, a longer one
HookDelays ==
    {NullDelay, PingIntervalMs, 2 * PingIntervalMs}

InitInterval ==
    /\ Init
    /\ props = [autoBoot |-> FALSE, shouldInitialize |-> FALSE,
                externalIntercom |-> FALSE, externalIntercomFallback |-> TRUE,
                externalIntercomFallbackDelay |-> TimeStep \div 2,
                apiBase |-> Undef, listeners |-> {},
                onBoot |-> TRUE, onInitialize |-> TRUE]
    /\ apiMode = "throws"
    /\ Intercom = "absent"

\* the owner renders and calls useInterval(callback, delay) (part_000:4)
UseIntervalRender ==
    /\ renders = 0 \/ mounted
    /\ renders < MaxHookRenders
    /\ ~pendingEffects
    /\ renderedDelay' \in HookDelays
    /\ mounted' = TRUE
    /\ renders' = renders + 1
    /\ pendingEffects' = TRUE
    /\ lastOp' = Op("useInterval", NoProps)
    /\ eff' = NoEff
    /\ UNCHANGED << props, apiMode, isBooted, Intercom, intercomSettings,
                    scriptPending, ping, start, now, dirty, savedCallback,
                    effectDelay, effectTimer, timers, nextTimerId, initCount,
                    bootsForwarded, bootedSets, session, appearedAt >>

NextInterval ==
    \/ UseIntervalRender
    \/ CommitEffects
    \/ Tick
    \/ Unmount
    \/ AdvanceTime

SpecInterval ==
    InitInterval /\ [][NextInterval]_vars

-----------------------------------------------------------------------------
(* Vocabulary of the properties *)

GuardedOps ==
    {"update", "hide", "show", "showMessages", "showNewMessages", "getVisitorId",
     "startTour", "trackEvent"}

\* the command a guarded operation forwards
CmdOf(op) ==
    IF op = "showNewMessages" THEN "showNewMessage" ELSE op

ListenerCmds ==
    {"onHide", "onShow", "onUnreadCountChange"}

\* the readiness guard, evaluated on the state a call started from
Ready(pre) ==
    /\ Callable(pre.Intercom) \/ props.shouldInitialize
    /\ pre.isBooted

\* the globals are as they were when the last operation started
GlobalsUntouched ==
    /\ isBooted = lastOp.pre.isBooted
    /\ Intercom = lastOp.pre.Intercom
    /\ intercomSettings = lastOp.pre.intercomSettings

Sent(i) ==
    eff.sent[i]

SentIdx ==
    1 .. Len(eff.sent)

\* the last step was a boot() call that got past both early returns
BootProceeded ==
    /\ lastOp.op = "boot"
    /\ ~lastOp.pre.isBooted
    /\ Callable(lastOp.pre.Intercom) \/ props.shouldInitialize

\* app_id, api_base if configured, and the mapped props of the call
ComputedSettings(p) ==
    LET withApp == [Empty EXCEPT !["app_id"] = AppId]
        withBase == [withApp EXCEPT !["api_base"] = props.apiBase]
    IN  Spread(withBase, IF p.given THEN mapIntercomPropsToRawIntercomProps(p)
                         ELSE Empty)

-----------------------------------------------------------------------------
(* C1: between two shutdowns a 'boot' command is forwarded exactly once, however
   many times boot() is called: while booted is true exactly one 'boot' has been
   forwarded since the last shutdown, booted has been set once, and a boot()
   call made while booted forwards nothing. *)
C1_BootForwardedExactlyOnce ==
    /\ isBooted => bootsForwarded = 1
    /\ bootsForwarded <= 1
    /\ bootedSets <= 1
    /\ (lastOp.op = "boot" /\ lastOp.pre.isBooted) =>
          (eff.calls = << >> /\ GlobalsUntouched)

(* C2: no command other than 'boot' reaches the vendor entry point while booted
   is false, the listener registrations sent during initialization included. *)
C2_NoDispatchBeforeBooted ==
    \A i \in SentIdx : ~Sent(i).booted => Sent(i).cmd = "boot"

(* C2, amended: while booted is false the only commands that reach the vendor
   entry point are 'boot' and the listener registrations that the initialization
   sequence sends; every guarded command and 'shutdown' is forwarded only while
   booted is true. *)
C2_OnlyInitAndBootBeforeBooted ==
    \A i \in SentIdx :
        ~Sent(i).booted =>
            \/ Sent(i).cmd = "boot"
            \/ /\ Sent(i).cmd \in ListenerCmds
               /\ Sent(i).cmd \in props.listeners
               /\ lastOp.op \in {"render", "tick"}
               /\ eff.inits = 1

C2_Witness ==
    /\ lastOp.op = "render"
    /\ Len(eff.sent) = 4
    /\ Sent(1).cmd = "onHide" /\ ~Sent(1).booted
    /\ Sent(4).cmd = "boot" /\ ~Sent(4).booted
    /\ isBooted

(* C3: a guarded consumer operation called while not ready forwards nothing,
   returns nothing and leaves booted, the vendor handle and the settings blob
   unchanged; called while ready it runs its action (one dispatch of its
   command) and returns the action's result. *)
C3_GuardedOperations ==
    lastOp.op \in GuardedOps =>
        IF ~Ready(lastOp.pre)
        THEN /\ eff.calls = << >>
             /\ eff.ret = Undef
             /\ eff.log # "none"
             /\ GlobalsUntouched
        ELSE /\ Len(eff.calls) = 1
             /\ eff.calls[1].cmd = CmdOf(lastOp.op)
             /\ eff.calls[1].booted
             /\ eff.log = "none"
             /\ IF Callable(lastOp.pre.Intercom)
                THEN /\ eff.sent = eff.calls
                     /\ lastOp.op = "getVisitorId" =>
                          eff.ret = VendorReturn(lastOp.pre.Intercom, "getVisitorId")
                ELSE eff.sent = << >> /\ eff.notLoaded

C3_Witness ==
    /\ lastOp.op = "update"
    /\ lastOp.arg.given
    /\ ~lastOp.pre.isBooted
    /\ Callable(lastOp.pre.Intercom)
    /\ lastOp.pre.intercomSettings.present
    /\ eff.log = "notBooted:update"

(* C4: a 'shutdown' command is forwarded only by a shutdown or hardShutdown call
   made while booted is true, which sets booted to false, and every forwarded
   'shutdown' is preceded by a forwarded 'boot' with no other 'shutdown' in
   between. *)
C4_ShutdownOnlyAfterBoot ==
    \A i \in SentIdx :
        Sent(i).cmd = "shutdown" =>
            /\ lastOp.op \in {"shutdown", "hardShutdown"}
            /\ lastOp.pre.isBooted
            /\ ~isBooted
            /\ Len(eff.sent) = 1
            /\ lastOp.pre.bootsForwarded = 1

(* C5: after every call to hardShutdown, whatever booted was before the call,
   the vendor handle and the settings blob are absent and booted is false. *)
C5_HardShutdownAlwaysClears ==
    lastOp.op = "hardShutdown" =>
        /\ Intercom = "absent"
        /\ ~intercomSettings.present
        /\ ~isBooted

(* C5, amended: after a call to hardShutdown made while booted is true the
   vendor handle and the settings blob are absent and booted is false; a call
   made while booted is false dispatches nothing and leaves the handle, the
   blob and booted as they were. *)
C5_HardShutdownClearsWhenBooted ==
    lastOp.op = "hardShutdown" =>
        IF lastOp.pre.isBooted
        THEN /\ Intercom = "absent"
             /\ intercomSettings = Absent
             /\ ~isBooted
        ELSE eff.calls = << >> /\ GlobalsUntouched

C5_Witness ==
    /\ lastOp.op = "hardShutdown"
    /\ lastOp.pre.isBooted
    /\ Callable(lastOp.pre.Intercom)
    /\ lastOp.pre.intercomSettings.present
    /\ Intercom = "absent"

(* C6: a boot() call that follows a hardShutdown (shouldInitialize true)
   re-initializes: its 'boot' command reaches a callable vendor entry point, the
   settings blob is set again and booted is true afterwards, whether or not the
   provider re-rendered in between. *)
C6_BootAfterHardShutdown ==
    ( /\ lastOp.op = "boot"
      /\ lastOp.pre.session = "afterHardShutdown"
      /\ props.shouldInitialize ) =>
        /\ Len(eff.sent) = 1
        /\ Sent(1).cmd = "boot"
        /\ intercomSettings.present
        /\ isBooted

\* the provider waits for an external instance and may initialize
ExternalCfg ==
    props.externalIntercom /\ props.shouldInitialize

\* nothing is pending: effects are flushed, no render is scheduled, no timer is due
Settled ==
    /\ mounted
    /\ ~pendingEffects
    /\ ~dirty
    /\ \A t \in timers : now < t.due

\* the times at which a polling timer armed at mount fires
TickTimes ==
    {start + k * PingIntervalMs : k \in 1 .. (MaxSteps + 1)}

(* C7: waiting for an external instance that never appears, with the fallback
   enabled and delay D: the initialization sequence runs exactly once, in a timer
   tick at or after D milliseconds since mount (it has run once the first such
   tick has fired), and no timer is live afterwards. *)
C7_FallbackInitializesOnce ==
    (ExternalCfg /\ props.externalIntercomFallback /\ appearedAt = -1) =>
        /\ ( /\ Settled
             /\ \E t \in TickTimes :
                  t <= now /\ t - start > props.externalIntercomFallbackDelay )
           => initCount = 1
        /\ initCount <= 1
        /\ eff.inits > 0 =>
             /\ lastOp.op = "tick"
             /\ now - start >= props.externalIntercomFallbackDelay
        /\ (initCount >= 1 /\ ~pendingEffects /\ ~dirty) => timers = {}

(* C8: waiting for an external instance that appears at time T < D: nothing is
   initialized while rendering, the initialization sequence runs exactly once, at
   the first tick at or after T (it has run once that tick has fired), and no
   timer is live afterwards. *)
C8_ExternalInitializesOnce ==
    ( /\ ExternalCfg
      /\ appearedAt >= 0
      /\ appearedAt - start < props.externalIntercomFallbackDelay
      /\ Callable(Intercom) ) =>
        /\ lastOp.op = "render" => eff.inits = 0
        /\ (Settled /\ \E t \in TickTimes : t <= now /\ t >= appearedAt)
           => initCount = 1
        /\ initCount <= 1
        /\ eff.inits > 0 => lastOp.op = "tick"
        /\ (initCount >= 1 /\ ~pendingEffects /\ ~dirty) => timers = {}

(* C9: in every configuration a boot(props) call that proceeds dispatches 'boot'
   with the pre-existing settings blob overlaid by the call's computed settings
   (the call's keys win, the other pre-existing keys are kept), and the blob
   after the call is exactly what was dispatched. *)
C9_BootMergesInEveryConfiguration ==
    BootProceeded =>
        LET merged == Spread(lastOp.pre.intercomSettings.kv,
                             ComputedSettings(lastOp.arg))
        IN  /\ Len(eff.calls) = 1
            /\ eff.calls[1].cmd = "boot"
            /\ eff.calls[1].args = <<merged>>
            /\ intercomSettings = Present(merged)

(* C9, amended: a boot(props) call that proceeds dispatches 'boot' with, when
   externalIntercom is true, the pre-existing settings blob overlaid by the
   call's computed settings (the call's keys win, the other pre-existing keys
   are kept) and, when externalIntercom is false, the computed settings alone
   (the pre-existing blob is dropped); the blob after the call is exactly what
   was dispatched. *)
C9_BootMergesExternalSettingsOnly ==
    BootProceeded =>
        LET computed == ComputedSettings(lastOp.arg)
            expected == IF props.externalIntercom
                        THEN Spread(lastOp.pre.intercomSettings.kv, computed)
                        ELSE computed
        IN  /\ Len(eff.calls) = 1
            /\ eff.calls[1].cmd = "boot"
            /\ eff.calls[1].args = <<expected>>
            /\ intercomSettings = Present(expected)

C9_Witness ==
    /\ BootProceeded
    /\ props.externalIntercom
    /\ lastOp.arg.given
    /\ lastOp.pre.intercomSettings = Present(ExtSettings)
    /\ Len(eff.sent) = 1
    /\ intercomSettings.kv["custom"] = "x"
    /\ intercomSettings.kv["app_id"] = AppId
    /\ intercomSettings.kv["name"] = "Jane"
    /\ isBooted

\* autoBoot=false, useExternalInstance=false, shouldInitialize=true, the other
\* props left out
Cfg10 ==
    /\ ~props.autoBoot
    /\ ~props.externalIntercom
    /\ props.shouldInitialize
    /\ props.apiBase = Undef

(* C10: with autoBoot=false, useExternalInstance=false, shouldInitialize=true no
   'boot' is forwarded and booted stays false through mount, re-renders and
   timer ticks until the consumer calls boot; the first explicit boot(props)
   forwards exactly {app_id} plus the mapped props and sets booted to true. *)
C10_NoAutoBootThenExplicitBoot ==
    Cfg10 =>
        /\ session = "fresh" => (~isBooted /\ bootsForwarded = 0)
        /\ lastOp.op # "boot" =>
             /\ \A i \in SentIdx : Sent(i).cmd # "boot"
             /\ isBooted => lastOp.pre.isBooted
        /\ (lastOp.op = "boot" /\ lastOp.pre.session = "fresh") =>
             /\ isBooted
             /\ Len(eff.sent) = 1
             /\ Sent(1).cmd = "boot"
             /\ Sent(1).args =
                  << Spread([Empty EXCEPT !["app_id"] = AppId],
                            IF lastOp.arg.given
                            THEN [Empty EXCEPT
                                    !["name"] = lastOp.arg.kv["name"],
                                    !["user_id"] = lastOp.arg.kv["userId"]]
                            ELSE Empty) >>

C10_Witness ==
    /\ Cfg10
    /\ lastOp.op = "boot"
    /\ lastOp.pre.session = "fresh"
    /\ lastOp.arg.given
    /\ renders = 2
    /\ now > 0
    /\ isBooted
    /\ Sent(1).args[1]["name"] = "Jane"
    /\ Sent(1).args[1]["user_id"] = "u1"
    /\ Sent(1).args[1]["custom"] = Undef

(* C11: update() called with no props while ready forwards exactly one 'update'
   command whose payload holds only the fresh timestamp (last_requested_at) and
   leaves the settings blob and booted unchanged; update(props) forwards the
   mapped props and overlays them onto the settings blob. *)
C11_UpdateForwardsTimestampOrProps ==
    (lastOp.op = "update" /\ Ready(lastOp.pre)) =>
        /\ Len(eff.sent) = 1
        /\ Sent(1).cmd = "update"
        /\ isBooted = lastOp.pre.isBooted
        /\ Intercom = lastOp.pre.Intercom
        /\ IF ~lastOp.arg.given
           THEN /\ Sent(1).args = << [last_requested_at |-> now] >>
                /\ intercomSettings = lastOp.pre.intercomSettings
           ELSE LET rawProps == mapIntercomPropsToRawIntercomProps(lastOp.arg)
                IN  /\ Sent(1).args = << rawProps >>
                    /\ intercomSettings =
                         Present(Spread(lastOp.pre.intercomSettings.kv, rawProps))

(* C12: boot() called while the vendor handle is absent and shouldInitialize is
   false is a no-op: it dispatches nothing, booted stays false, the settings
   blob and the vendor handle are unchanged and onBoot is not invoked (it only
   logs the not-initialized warning). *)
C12_BootNotInitializedIsNoOp ==
    (lastOp.op = "boot" /\ ~Callable(lastOp.pre.Intercom)
        /\ ~props.shouldInitialize) =>
        /\ eff.calls = << >>
        /\ eff.sent = << >>
        /\ ~lastOp.pre.isBooted
        /\ ~isBooted
        /\ GlobalsUntouched
        /\ bootsForwarded = lastOp.pre.bootsForwarded
        /\ eff.onBoot = 0
        /\ eff.log = "notInitialized"

C12_Witness ==
    /\ lastOp.op = "boot"
    /\ lastOp.arg.given
    /\ ~Callable(lastOp.pre.Intercom)
    /\ ~props.shouldInitialize
    /\ props.onBoot
    /\ ~props.externalIntercom
    /\ eff.log = "notInitialized"

(* C13: the polling timer is armed only while the provider waits for an external
   instance: once the effects of the latest render are flushed a timer is live
   iff externalIntercom is true and the ping state has not been exited; with
   externalIntercom false no timer is ever armed. *)
C13_TimerArmedIffPinging ==
    /\ (mounted /\ ~pendingEffects /\ ~dirty) =>
          ((timers # {}) <=> (props.externalIntercom /\ ping))
    /\ ~props.externalIntercom => timers = {}

\* non-external mode, allowed to initialize, no vendor handle at mount (in this
\* mode only the provider itself ever installs the handle)
Cfg14 ==
    /\ ~props.externalIntercom
    /\ props.shouldInitialize
    /\ appearedAt = -1

(* C14: with externalIntercom false, shouldInitialize true and no vendor handle
   at mount the initialization sequence runs exactly once per mount, at the
   first render, and no later render runs it again, whatever operations were
   called in between. *)
C14_InitializesOncePerMount ==
    Cfg14 =>
        /\ renders >= 1 => initCount = 1
        /\ (lastOp.op = "render" /\ renders > 1) => eff.inits = 0

\* the registration commands of the configured listeners, in the order the
\* initialization sequence sends them
ListenerSeq ==
    LET Configured(c) == c \in props.listeners
    IN  SelectSeq(<< "onHide", "onShow", "onUnreadCountChange" >>, Configured)

(* C15: one run of the initialization sequence injects the vendor script first
   (so every later command of the run reaches a callable entry point), then
   sends the registrations of the configured listeners in the order onHide,
   onShow, onUnreadCountChange, and then calls boot iff autoBoot is true (boot
   forwards 'boot' unless already booted).  With autoBoot true in non-external
   mode exactly one 'boot' has been forwarded and booted is true when the first
   render finishes; with autoBoot false the sequence forwards no 'boot'. *)
C15_InitializationOrder ==
    (lastOp.op \in {"render", "tick"} /\ eff.inits = 1) =>
        LET n == Len(ListenerSeq)
            bootNow == props.autoBoot /\ ~lastOp.pre.isBooted
        IN  /\ Callable(Intercom)
            /\ eff.sent = eff.calls
            /\ eff.onInitialize = 1
            /\ Len(eff.sent) = n + (IF bootNow THEN 1 ELSE 0)
            /\ \A i \in 1 .. n : Sent(i).cmd = ListenerSeq[i]
            /\ bootNow => (Sent(n + 1).cmd = "boot" /\ isBooted /\ eff.onBoot = 1)
            /\ ~props.autoBoot =>
                  /\ \A i \in SentIdx : Sent(i).cmd # "boot"
                  /\ isBooted = lastOp.pre.isBooted
                  /\ eff.onBoot = 0
            /\ (lastOp.op = "render" /\ renders = 1 /\ props.autoBoot
                  /\ ~props.externalIntercom) =>
                  /\ isBooted
                  /\ bootsForwarded = 1
                  /\ Cardinality({i \in SentIdx : Sent(i).cmd = "boot"}) = 1

C15_Witness ==
    /\ lastOp.op = "render"
    /\ renders = 1
    /\ eff.inits = 1
    /\ props.autoBoot
    /\ Len(eff.sent) = 4
    /\ Sent(2).cmd = "onShow"
    /\ Sent(3).cmd = "onUnreadCountChange"
    /\ Sent(4).cmd = "boot"
    /\ bootsForwarded = 1

(* C16: useInterval tears down and re-arms its timer iff the delay it is given
   changed since the interval effect last ran (a change to or from null
   included): an update with a new callback and the same delay leaves the live
   timer, and its remaining countdown, as they were; an update with another
   delay clears the old timer and arms one new timer, or none when the delay is
   null; at most one timer is live. *)
C16_RearmsIffDelayChanges ==
    /\ Cardinality(timers) <= 1
    /\ lastOp.op = "commitEffects" =>
          LET h == eff.hook
              changed == h.prevDelay # renderedDelay
          IN  /\ savedCallback = renders
              /\ ~changed =>
                    /\ timers = h.prevTimers
                    /\ h.cleared = 0
                    /\ h.armed = 0
              /\ changed =>
                    /\ h.prevTimers \cap timers = {}
                    /\ \A t \in h.prevTimers : t.id = h.cleared
                    /\ IF renderedDelay = NullDelay
                       THEN timers = {} /\ h.armed = 0
                       ELSE /\ h.armed # 0
                            /\ \A t \in h.prevTimers : t.id # h.armed
                            /\ timers = {[id |-> h.armed, delay |-> renderedDelay,
                                          due |-> now + renderedDelay,
                                          armed |-> renders]}

C16_Witness ==
    /\ lastOp.op = "commitEffects"
    /\ eff.hook.prevDelay = renderedDelay
    /\ \E t \in timers : t.due < now + t.delay /\ t.armed < renders

(* C17: every tick runs the callback of the most recent update of the hook (the
   latest render whose effects have been flushed), not the one that was current
   when the timer was armed. *)
C17_TickRunsLatestCallback ==
    lastOp.op = "tick" =>
        /\ eff.hook.ran >= 1
        /\ eff.hook.ran = IF pendingEffects THEN renders - 1 ELSE renders

C17_Witness ==
    /\ lastOp.op = "tick"
    /\ eff.hook.ran = 2
    /\ \E t \in timers : t.armed = 1

(* C18: after teardown (the delay became null, or the owner unmounted) the
   timer is released: a timer is live, and a tick fires, only while the owner
   is mounted and the interval effect last ran with a non-null delay. *)
C18_NoTimerAfterTeardown ==
    /\ timers # {} => (mounted /\ effectDelay \notin {NullDelay, -1})
    /\ lastOp.op = "tick" => (mounted /\ effectDelay \notin {NullDelay, -1})
    /\ lastOp.op = "unmount" => timers = {}
    /\ (lastOp.op = "commitEffects" /\ renderedDelay = NullDelay) => timers = {}

C18_Witness ==
    /\ lastOp.op = "unmount"
    /\ eff.hook.cleared # 0
    /\ eff.hook.prevTimers # {}
    /\ timers = {}

(* C19: whenever booted is true the vendor entry point is callable, so no
   command that passes the readiness guard is dispatched with the entry point
   absent (VendorNotLoaded never happens), in every configuration. *)
C19_BootedImpliesCallable ==
    /\ isBooted => Callable(Intercom)
    /\ ~eff.notLoaded

(* C20: shutdown() changes only the booted flag: it leaves the vendor handle and
   the settings blob exactly as they were, whether it was called while booted
   or not, and sets booted to false; called while not booted it dispatches
   nothing. *)
C20_ShutdownKeepsGlobals ==
    /\ lastOp.op = "shutdown" =>
          /\ Intercom = lastOp.pre.Intercom
          /\ intercomSettings = lastOp.pre.intercomSettings
          /\ ~isBooted
          /\ IF lastOp.pre.isBooted
             THEN Len(eff.calls) = 1 /\ eff.calls[1].cmd = "shutdown"
             ELSE eff.calls = << >>
    /\ (Callable(lastOp.pre.Intercom) /\ ~Callable(Intercom)) =>
          lastOp.op = "hardShutdown"
    /\ (lastOp.pre.intercomSettings.present /\ ~intercomSettings.present) =>
          lastOp.op = "hardShutdown"

C20_Witness ==
    /\ lastOp.op = "shutdown"
    /\ lastOp.pre.isBooted
    /\ ~isBooted
    /\ Callable(Intercom)
    /\ intercomSettings.present
    /\ Len(eff.sent) = 1

====
